---- MODULE Spec2Model ----
(***************************************************************************)
(* Model of the two gaze-viewer scripts of htn-eyeware/eyeware:            *)
(*   src/eyeware.py            (detector + tracker + audio alert variant)  *)
(*   src/eyetracking/pyside.py (text overlay variant)                      *)
(*                                                                         *)
(* The scripts run three threads.  The main thread runs main(): it builds  *)
(* GazeViewer (and, inside it, the Frontend) statement by statement and    *)
(* then polls `connected`.  The vendor API thread delivers the connect     *)
(* response, the camera-start response and the gaze samples.  The video    *)
(* receiver thread delivers frames to GazeViewer._handle_video_stream,     *)
(* which is modelled read by read of self._gaze_coordinates, because the   *)
(* gaze handler may run between any two of them.                           *)
(*                                                                         *)
(* A handler that makes several calls on the vendor API is one step per    *)
(* call, so the other threads run between two calls.  `trace` records, per *)
(* thread, the calls it made and the events that caused them; the order of *)
(* calls of different threads is the order of the steps of a behaviour.    *)
(*                                                                         *)
(* GazeViewer.closeEvent (eyeware.py l.123-128, pyside.py l.113-118) is a   *)
(* public method that neither script calls.  Its caller is modelled as a   *)
(* fourth thread, "ui", that may call it on a viewer whose self.frontend   *)
(* is assigned.                                                            *)
(***************************************************************************)
EXTENDS Integers, Sequences, FiniteSets, Bags, TLC

\* ------------------------------------------------------------------ bounds
MaxEvents  == 3   \* events the environment delivers in one run: connect
                  \* responses, gaze samples, frames, keyboard interrupts
                  \* and calls of closeEvent, in any mix
MaxPersons == 2   \* persons returned by one tracker update

\* ------------------------------------------------- constants of the source
SrcW == 1280      \* eyeware.py:191  gaze_x / 1280 * 640
SrcH == 720       \* eyeware.py:191  gaze_y / 720 * 360

GREEN  == <<0, 255, 0>>      \* eyeware.py:164,174
RED    == <<255, 0, 0>>      \* eyeware.py:168
YELLOW == <<255, 255, 0>>    \* eyeware.py:171

\* ------------------------------------------------------------ gaze values
\* A coordinate is a float of the SDK: NaN, or (in this model) an integral
\* value.
NaN    == [nan |-> TRUE, v |-> 0]
Num(n) == [nan |-> FALSE, v |-> n]

\* math.isnan
isnan(c) == c.nan

\* -------------------------------------------------- IEEE-754 double scaling
\* int(v / src * dst) as CPython computes it on doubles, for an integral v and
\* dst = src / 2.  With src = d * 2^s (d odd), the quotient v/src is rounded
\* to 53 bits; rho is the signed remainder of that rounding, so the exact
\* product fl(v/src) * dst is v/2 - rho * 2^-(k+1).  It rounds to a double
\* below v/2 exactly when rho exceeds half the spacing of the doubles there.
OddPart(n) == LET RECURSIVE op(_)
                  op(m) == IF m % 2 = 0 THEN op(m \div 2) ELSE m
              IN op(n)

Pow2(k) == LET RECURSIVE p(_)
               p(j) == IF j = 0 THEN 1 ELSE 2 * p(j - 1)
           IN p(k)

\* floor(log2 n), n >= 1
FloorLog2(n) == LET RECURSIVE f(_)
                    f(m) == IF m < 2 THEN 0 ELSE 1 + f(m \div 2)
                IN f(n)

\* floor(log2 (v / d)), v >= 1, d >= 1
FloorLog2Ratio(v, d) ==
    LET RECURSIVE up(_)
        up(j) == IF v * Pow2(j) >= d THEN j ELSE up(j + 1)
    IN IF v >= d THEN FloorLog2(v \div d) ELSE 0 - up(1)

\* 2^k mod d
PowMod2(k, d) == LET RECURSIVE p(_)
                     p(j) == IF j = 0 THEN 1 % d ELSE (2 * p(j - 1)) % d
                 IN p(k)

IsPow2(n) == n = Pow2(FloorLog2(n))

ScalePos(v, src) ==
    LET d   == OddPart(src)
        n   == v \div 2
        a   == FloorLog2Ratio(v, d)
        k   == 52 - a
        t   == ((v % d) * PowMod2(k, d)) % d
        rho == IF 2 * t > d THEN t - d ELSE t
        e   == IF IsPow2(n) THEN FloorLog2(n) - 1 ELSE FloorLog2(n)
    IN IF v % 2 = 1 THEN (v - 1) \div 2
       ELSE IF d = 1 THEN n
       ELSE IF rho > Pow2(e - a) THEN n - 1 ELSE n

MutScaleToFrame(v, src) == v

\* int(v / src * (src/2)): truncation toward zero of the double product
ScaleToFrame(v, src) ==
    IF v = 0 THEN 0
    ELSE IF v > 0 THEN ScalePos(v, src) ELSE 0 - ScalePos(0 - v, src)

\* ------------------------------------------------------------------ state
VARIABLES
    script,            \* which of the two scripts runs: "eyeware" or "pyside"
    mainpc,            \* statement the main thread is about to execute
    attrs,             \* instance attributes that exist so far
    connected,         \* Frontend.connected: "unset", "False" or "True"
    api,               \* FrontendApi: "none", "created", "started", "shutdown"
    trace,             \* per thread: the API calls it issued and the events
                       \* that caused them, in program order
    todo,              \* per thread: the calls of the running handler that
                       \* are still to be made
    pendingCamera,     \* start_camera_capture requests awaiting a response
    streaming,         \* the video stream to the receiver is on
    gaze_coordinates,  \* GazeViewer._gaze_coordinates, with the sample's id
    frame,             \* the invocation of _handle_video_stream in progress
    play_sound,        \* the module-level play_sound of eyeware.py
    soundStarts,       \* sound processes started by play_warning_sound
    nConnect, nGaze, nFrames, nIntr

vars == <<script, mainpc, attrs, connected, api, trace, todo, pendingCamera,
          streaming, gaze_coordinates, frame, play_sound, soundStarts,
          nConnect, nGaze, nFrames, nIntr>>

\* Number of entries c in calls.
Count(calls, c) == Cardinality({i \in 1..Len(calls) : calls[i] = c})

\* Events the environment has delivered so far.
Events ==
    nConnect + nGaze + nFrames + nIntr + Count(trace.ui, "closeEvent")

\* Nothing for any of the threads.
NoCalls == [main |-> <<>>, api |-> <<>>, video |-> <<>>, ui |-> <<>>]

\* The gaze attribute before GazeViewer.__init__ reaches line 119.
NoGaze == [x |-> Num(0), y |-> Num(0), id |-> 0 - 1]

\* The handler's locals between two frames.
IdleFrame ==
    [pc |-> "idle", n |-> 0, persons |-> EmptyBag, play_sound |-> FALSE,
     reads |-> {}, text |-> FALSE, held |-> Num(0),
     marker |-> <<>>, shown |-> FALSE, raised |-> "", q |-> FALSE]

Init ==
    /\ script \in {"eyeware", "pyside"}
    /\ mainpc = "receiver"
    /\ attrs = {}
    /\ connected = "unset"
    /\ api = "none"
    /\ trace = NoCalls
    /\ todo = NoCalls
    /\ pendingCamera = 0
    /\ streaming = FALSE
    /\ gaze_coordinates = NoGaze
    /\ frame = IdleFrame
    /\ play_sound = FALSE
    /\ soundStarts = 0
    /\ nConnect = 0
    /\ nGaze = 0
    /\ nFrames = 0
    /\ nIntr = 0

\* ------------------------------------------------------ Frontend.shutdown
\* The four calls of Frontend.shutdown, in program order.
Frontend_shutdown ==
    <<"stop_video_stream", "stop_camera_capture", "stop_log_session",
      "shutdown">>

\* GazeViewer.close: self.frontend.shutdown(); cv2.destroyAllWindows()
GazeViewer_close == Frontend_shutdown \o <<"destroyAllWindows">>

\* ---------------------------------------------------- calls on the vendor API
Has(calls, c) == \E i \in 1..Len(calls) : calls[i] = c

\* Thread th appends the entries of calls to its trace.
Log(th, calls) == trace' = [trace EXCEPT ![th] = @ \o calls]

\* Thread th executes the next statement of the handler it is in: one call
\* on the vendor API (or cv2.destroyAllWindows, sys.exit, or the write of
\* self.connected).  Other threads run between two such statements.
\* stop_video_stream and start_video_stream evaluate
\* self._video_receiver_address first: AttributeError ends the handler if
\* Frontend.__init__ has not set it yet.
Issue(th) ==
    /\ todo[th] # <<>>
    /\ LET c == Head(todo[th])
       IN IF c = "connected=True"
          THEN /\ connected' = "True"
               /\ todo' = [todo EXCEPT ![th] = Tail(@)]
               /\ UNCHANGED <<trace, api, streaming, pendingCamera>>
          ELSE IF c \in {"stop_video_stream", "start_video_stream"}
                  /\ "addr" \notin attrs
          THEN /\ Log(th, <<"AttributeError">>)
               /\ todo' = [todo EXCEPT ![th] = <<>>]
               /\ UNCHANGED <<connected, api, streaming, pendingCamera>>
          ELSE /\ Log(th, <<c>>)
               /\ todo' = [todo EXCEPT ![th] = Tail(@)]
               /\ api' = IF c = "shutdown" THEN "shutdown" ELSE api
               /\ streaming' = IF c = "stop_video_stream" THEN FALSE
                               ELSE IF c = "start_video_stream" THEN TRUE
                               ELSE streaming
               /\ pendingCamera' = IF c = "start_camera_capture"
                                   THEN pendingCamera + 1 ELSE pendingCamera
               /\ UNCHANGED connected

\* ------------------------------------------------------------ main thread
Terminal == {"done", "interrupted", "crashed"}

\* GazeViewer.__init__: the video receiver is created and started.
Main_receiver ==
    /\ mainpc = "receiver"
    /\ mainpc' = "api"
    /\ UNCHANGED <<todo, script, attrs, connected, api, trace, pendingCamera,
                   streaming, gaze_coordinates, frame, play_sound,
                   soundStarts, nConnect, nGaze, nFrames, nIntr>>

\* Frontend.__init__: the API calls it makes, in program order.
Frontend_init_calls == <<"register_stream_handler", "start">>

\* Frontend.__init__: self._api = FrontendApi()
Main_api ==
    /\ mainpc = "api"
    /\ mainpc' = "register"
    /\ api' = "created"
    /\ UNCHANGED <<todo, script, attrs, connected, trace, pendingCamera,
                   streaming, gaze_coordinates, frame, play_sound,
                   soundStarts, nConnect, nGaze, nFrames, nIntr>>

\* Frontend.__init__: register_stream_handler(GAZE_IN_IMAGE, handler)
Main_register ==
    /\ mainpc = "register"
    /\ mainpc' = "start"
    /\ Log("main", <<Frontend_init_calls[1]>>)
    /\ UNCHANGED <<todo, script, attrs, connected, api, pendingCamera,
                   streaming, gaze_coordinates, frame, play_sound,
                   soundStarts, nConnect, nGaze, nFrames, nIntr>>

\* Frontend.__init__: api.start(connect_cb=...); callbacks may fire from here.
Main_start ==
    /\ mainpc = "start"
    /\ mainpc' = "addr"
    /\ api' = "started"
    /\ Log("main", <<Frontend_init_calls[2]>>)
    /\ UNCHANGED <<todo, script, attrs, connected, pendingCamera, streaming,
                   gaze_coordinates, frame, play_sound, soundStarts,
                   nConnect, nGaze, nFrames, nIntr>>

\* Frontend.__init__: self._video_receiver_address = ...
Main_addr ==
    /\ mainpc = "addr"
    /\ mainpc' = "flag"
    /\ attrs' = attrs \cup {"addr"}
    /\ UNCHANGED <<todo, script, connected, api, trace, pendingCamera, streaming,
                   gaze_coordinates, frame, play_sound, soundStarts,
                   nConnect, nGaze, nFrames, nIntr>>

\* Frontend.__init__: self.connected = False
Main_flag ==
    /\ mainpc = "flag"
    /\ mainpc' = "frontend"
    /\ connected' = "False"
    /\ UNCHANGED <<todo, script, attrs, api, trace, pendingCamera, streaming,
                   gaze_coordinates, frame, play_sound, soundStarts,
                   nConnect, nGaze, nFrames, nIntr>>

\* GazeViewer.__init__: self.frontend = <the Frontend just built>
Main_frontend ==
    /\ mainpc = "frontend"
    /\ mainpc' = "gaze0"
    /\ attrs' = attrs \cup {"frontend"}
    /\ UNCHANGED <<todo, script, connected, api, trace, pendingCamera, streaming,
                   gaze_coordinates, frame, play_sound, soundStarts,
                   nConnect, nGaze, nFrames, nIntr>>

\* GazeViewer.__init__: self._gaze_coordinates = (0, 0)
Main_gaze0 ==
    /\ mainpc = "gaze0"
    /\ mainpc' = IF script = "eyeware" THEN "ct" ELSE "assign"
    /\ gaze_coordinates' = [x |-> Num(0), y |-> Num(0), id |-> 0]
    /\ UNCHANGED <<todo, script, attrs, connected, api, trace, pendingCamera,
                   streaming, frame, play_sound, soundStarts,
                   nConnect, nGaze, nFrames, nIntr>>

\* GazeViewer.__init__ of eyeware.py: self.ct = CentroidTracker()
Main_ct ==
    /\ mainpc = "ct"
    /\ mainpc' = "assign"
    /\ attrs' = attrs \cup {"ct"}
    /\ UNCHANGED <<todo, script, connected, api, trace, pendingCamera, streaming,
                   gaze_coordinates, frame, play_sound, soundStarts,
                   nConnect, nGaze, nFrames, nIntr>>

\* main: GazeViewer.__init__ has returned; main_window = <the viewer>.  The
\* next statement is play_warning_sound() in eyeware.py and the try block in
\* pyside.py.
Main_assign ==
    /\ mainpc = "assign"
    /\ mainpc' = IF script = "eyeware" THEN "sound" ELSE "wait"
    /\ UNCHANGED <<todo, script, attrs, connected, api, trace, pendingCamera,
                   streaming, gaze_coordinates, frame, play_sound,
                   soundStarts, nConnect, nGaze, nFrames, nIntr>>

\* main of eyeware.py calls play_warning_sound() once, before the wait loop.
\* It reads the module-level play_sound: p.start() if set; otherwise
\* p.terminate() on a process that was never started, which raises
\* AttributeError (multiprocessing: self._popen is None) outside main's try.
play_warning_sound ==
    /\ mainpc = "sound"
    /\ IF play_sound
       THEN /\ soundStarts' = soundStarts + 1
            /\ mainpc' = "wait"
       ELSE /\ soundStarts' = soundStarts
            /\ mainpc' = "crashed"
    /\ UNCHANGED <<todo, script, attrs, connected, api, trace, pendingCamera,
                   streaming, gaze_coordinates, frame, play_sound,
                   nConnect, nGaze, nFrames, nIntr>>

\* main: while not main_window.connected: pass
Main_wait ==
    /\ mainpc = "wait"
    /\ mainpc' = IF connected = "True" THEN "done" ELSE "wait"
    /\ UNCHANGED <<todo, script, attrs, connected, api, trace, pendingCamera,
                   streaming, gaze_coordinates, frame, play_sound,
                   soundStarts, nConnect, nGaze, nFrames, nIntr>>

\* main: KeyboardInterrupt inside the try: the except clause is entered and
\* calls main_window.close().
Main_interrupt ==
    /\ mainpc = "wait"
    /\ Events < MaxEvents
    /\ nIntr' = nIntr + 1
    /\ mainpc' = "closing"
    /\ Log("main", <<"KeyboardInterrupt">>)
    /\ todo' = [todo EXCEPT !.main = GazeViewer_close]
    /\ UNCHANGED <<script, attrs, connected, api, pendingCamera, streaming,
                   gaze_coordinates, frame, play_sound, soundStarts,
                   nConnect, nGaze, nFrames>>

\* main: one statement of main_window.close() (Frontend.shutdown, then
\* cv2.destroyAllWindows); after the last one main returns.
Main_close ==
    /\ mainpc = "closing"
    /\ Issue("main")
    /\ mainpc' = IF todo'.main = <<>> THEN "interrupted" ELSE "closing"
    /\ UNCHANGED <<script, attrs, gaze_coordinates, frame, play_sound,
                   soundStarts, nConnect, nGaze, nFrames, nIntr>>

\* main: KeyboardInterrupt outside the try: before it (while the GazeViewer
\* is built, when its constructor returns, or in play_warning_sound), or in
\* the except clause while main_window.close() runs.  Nothing catches it;
\* the calls close() has not made yet are never made.
Main_interrupt_uncaught ==
    /\ mainpc \notin Terminal \cup {"wait"}
    /\ Events < MaxEvents
    /\ nIntr' = nIntr + 1
    /\ mainpc' = "crashed"
    /\ todo' = [todo EXCEPT !.main = <<>>]
    /\ UNCHANGED <<script, attrs, connected, api, trace, pendingCamera,
                   streaming, gaze_coordinates, frame, play_sound,
                   soundStarts, nConnect, nGaze, nFrames>>

\* ------------------------------------------------------- vendor API thread
MutFrontend_handle_connect_response(error) ==
    <<"set_stream_control", "start_camera_capture", "start_log_session",
      "connected=True">>

\* Frontend._handle_connect_response: its statements, in program order.
Frontend_handle_connect_response(error) ==
    IF ~error
    THEN <<"set_stream_control", "start_camera_capture", "start_log_session",
           "connected=True">>
    ELSE <<>>

\* Frontend._handle_camera_start_response: its statements.  sys.exit()
\* raises SystemExit in the thread that runs the callback.
Frontend_handle_camera_start_response(error) ==
    IF error THEN Frontend_shutdown \o <<"sys.exit">>
    ELSE <<"start_video_stream">>

\* The API thread calls _handle_connect_response(error).
ConnectResponse ==
    /\ api = "started"
    /\ todo.api = <<>>
    /\ Events < MaxEvents
    /\ nConnect' = nConnect + 1
    /\ \E error \in BOOLEAN :
         /\ Log("api", <<IF error THEN "connect_err" ELSE "connect_ok">>)
         /\ todo' = [todo EXCEPT
                       !.api = Frontend_handle_connect_response(error)]
    /\ UNCHANGED <<script, mainpc, attrs, connected, api, pendingCamera,
                   streaming, gaze_coordinates, frame, play_sound,
                   soundStarts, nGaze, nFrames, nIntr>>

\* The API thread calls _handle_camera_start_response(error), the callback
\* given to a start_camera_capture request.
CameraResponse ==
    /\ api = "started"
    /\ todo.api = <<>>
    /\ pendingCamera > 0
    /\ pendingCamera' = pendingCamera - 1
    /\ \E error \in BOOLEAN :
         /\ Log("api", <<IF error THEN "camera_err" ELSE "camera_ok">>)
         /\ todo' = [todo EXCEPT
                       !.api = Frontend_handle_camera_start_response(error)]
    /\ UNCHANGED <<script, mainpc, attrs, connected, api, streaming,
                   gaze_coordinates, frame, play_sound, soundStarts,
                   nConnect, nGaze, nFrames, nIntr>>

\* The API thread executes the next statement of the callback it is in.
Api_call ==
    /\ Issue("api")
    /\ UNCHANGED <<script, mainpc, attrs, gaze_coordinates, frame,
                   play_sound, soundStarts, nConnect, nGaze, nFrames, nIntr>>

\* Gaze samples the API delivers in the full model.
Samples ==
    { [x |-> Num(100), y |-> Num(26)],
      [x |-> NaN, y |-> NaN],
      [x |-> Num(1279), y |-> NaN] }

\* GazeViewer._handle_gaze_in_image_stream
\*   self._gaze_coordinates = [gaze_img_x, gaze_img_y]
GazeViewer_handle_gaze_in_image_stream ==
    /\ api = "started"
    /\ todo.api = <<>>
    /\ Events < MaxEvents
    /\ nGaze' = nGaze + 1
    /\ \E s \in Samples :
         gaze_coordinates' = [x |-> s.x, y |-> s.y, id |-> nGaze + 1]
    /\ UNCHANGED <<todo, script, mainpc, attrs, connected, api, trace,
                   pendingCamera, streaming, frame, play_sound, soundStarts,
                   nConnect, nFrames, nIntr>>

\* ------------------------------------------------- caller of closeEvent
\* GazeViewer.closeEvent(event) is entered: self.frontend.shutdown()
GazeViewer_closeEvent ==
    /\ "frontend" \in attrs
    /\ todo.ui = <<>>
    /\ Events < MaxEvents
    /\ Log("ui", <<"closeEvent">>)
    /\ todo' = [todo EXCEPT !.ui = Frontend_shutdown]
    /\ UNCHANGED <<script, mainpc, attrs, connected, api, pendingCamera,
                   streaming, gaze_coordinates, frame, play_sound,
                   soundStarts, nConnect, nGaze, nFrames, nIntr>>

\* One statement of Frontend.shutdown called from closeEvent.
CloseEvent_call ==
    /\ Issue("ui")
    /\ UNCHANGED <<script, mainpc, attrs, gaze_coordinates, frame,
                   play_sound, soundStarts, nConnect, nGaze, nFrames, nIntr>>

\* ---------------------------------------------------- video receiver thread
\* GazeViewer._handle_video_stream, one action per read of
\* self._gaze_coordinates.
NoAttr == gaze_coordinates.id = 0 - 1

Raise(exc) == [frame EXCEPT !.pc = "return", !.raised = exc, !.held = Num(0)]

Read(f) == [f EXCEPT !.reads = @ \cup {gaze_coordinates.id}]

\* Lines 140-152 of eyeware.py (131-132 of pyside.py): decode; resize; run
\* the detector; play_sound = False (a local); objects = self.ct.update(...)
Video_begin ==
    /\ streaming
    /\ frame.pc = "idle"
    /\ Events < MaxEvents
    /\ nFrames' = nFrames + 1
    /\ \E n \in 0..MaxPersons :
         frame' = IF script = "pyside"
                  THEN [IdleFrame EXCEPT !.pc = "textx"]
                  ELSE IF "ct" \notin attrs
                  THEN [IdleFrame EXCEPT !.pc = "return",
                                         !.raised = "AttributeError"]
                  ELSE [IdleFrame EXCEPT
                          !.pc = IF n = 0 THEN "textx" ELSE "persons",
                          !.n = n]
    /\ UNCHANGED <<todo, script, mainpc, attrs, connected, api, trace,
                   pendingCamera, streaming, gaze_coordinates, play_sound,
                   soundStarts, nConnect, nGaze, nIntr>>

\* Lines 163-174: the rectangles drawn for one person.
PersonRects(is_seen, gseen, close) ==
    IF is_seen THEN <<GREEN>>
    ELSE IF ~gseen THEN (IF close THEN <<RED>> ELSE <<YELLOW>>)
    ELSE <<GREEN>>

\* Line 169: play_sound = True
PersonAlert(is_seen, gseen, close) == ~is_seen /\ ~gseen /\ close

MutPlaySoundAfter(flag, is_seen, gseen, close) ==
    PersonAlert(is_seen, gseen, close)

\* The local play_sound after one iteration of the loop: line 169 sets it,
\* nothing in the loop clears it.
PlaySoundAfter(flag, is_seen, gseen, close) ==
    IF PersonAlert(is_seen, gseen, close) THEN TRUE ELSE flag

\* One iteration of the loop over objects.items() (lines 154-174).  is_seen
\* and close are the truth values of person.is_seen and
\* person.is_person_close; gseen is what person.is_person_seen(gaze) returns,
\* and it is called only when is_seen is false.  frame.persons is the bag of
\* the persons drawn on the image so far, each with the values the handler
\* read for it: close is recorded as line 167 read it, FALSE for a person
\* for whom line 167 is not reached.
Video_person ==
    /\ frame.pc = "persons"
    /\ \E is_seen, gseen, close \in BOOLEAN :
         /\ is_seen => ~gseen
         /\ frame' =
              IF ~is_seen /\ NoAttr THEN Raise("AttributeError")
              ELSE LET f == IF is_seen THEN frame ELSE Read(frame)
                       p == [is_seen |-> is_seen,
                             gseen |-> gseen,
                             close |-> ~is_seen /\ ~gseen /\ close,
                             rects |-> PersonRects(is_seen, gseen, close)]
                   IN [f EXCEPT
                         !.persons = @ (+) SetToBag({p}),
                         !.play_sound =
                             PlaySoundAfter(@, is_seen, gseen, close),
                         !.pc = IF BagCardinality(frame.persons) + 1 = frame.n
                                THEN "textx" ELSE "persons"]
    /\ UNCHANGED <<todo, script, mainpc, attrs, connected, api, trace,
                   pendingCamera, streaming, gaze_coordinates, play_sound,
                   soundStarts, nConnect, nGaze, nFrames, nIntr>>

\* Line 180: f"{self._gaze_coordinates[0]}, ..." (first field)
Video_textx ==
    /\ frame.pc = "textx"
    /\ frame' = IF NoAttr THEN Raise("AttributeError")
                ELSE [Read(frame) EXCEPT !.pc = "texty"]
    /\ UNCHANGED <<todo, script, mainpc, attrs, connected, api, trace,
                   pendingCamera, streaming, gaze_coordinates, play_sound,
                   soundStarts, nConnect, nGaze, nFrames, nIntr>>

\* Line 180 (second field) and cv2.putText (lines 178-187)
Video_texty ==
    /\ frame.pc = "texty"
    /\ frame' = IF NoAttr THEN Raise("AttributeError")
                ELSE [Read(frame) EXCEPT
                        !.pc = IF script = "eyeware" THEN "nanx" ELSE "show",
                        !.text = TRUE]
    /\ UNCHANGED <<todo, script, mainpc, attrs, connected, api, trace,
                   pendingCamera, streaming, gaze_coordinates, play_sound,
                   soundStarts, nConnect, nGaze, nFrames, nIntr>>

\* Line 190: one operand of `math.isnan(..[0]) or math.isnan(..[1])`
SkipMarker(c) == isnan(c)

\* Line 190, left operand of the `or`
Video_nanx ==
    /\ frame.pc = "nanx"
    /\ frame' = IF NoAttr THEN Raise("AttributeError")
                ELSE [Read(frame) EXCEPT
                        !.pc = IF SkipMarker(gaze_coordinates.x)
                               THEN "show" ELSE "nany"]
    /\ UNCHANGED <<todo, script, mainpc, attrs, connected, api, trace,
                   pendingCamera, streaming, gaze_coordinates, play_sound,
                   soundStarts, nConnect, nGaze, nFrames, nIntr>>

\* Line 190, right operand, evaluated only if the left one is false
Video_nany ==
    /\ frame.pc = "nany"
    /\ frame' = IF NoAttr THEN Raise("AttributeError")
                ELSE [Read(frame) EXCEPT
                        !.pc = IF SkipMarker(gaze_coordinates.y)
                               THEN "show" ELSE "markx"]
    /\ UNCHANGED <<todo, script, mainpc, attrs, connected, api, trace,
                   pendingCamera, streaming, gaze_coordinates, play_sound,
                   soundStarts, nConnect, nGaze, nFrames, nIntr>>

\* Line 191, first element: int(self._gaze_coordinates[0]/1280 * 640);
\* int() of a NaN raises ValueError.
Video_markx ==
    /\ frame.pc = "markx"
    /\ frame' = IF NoAttr THEN Raise("AttributeError")
                ELSE IF isnan(gaze_coordinates.x)
                THEN [Read(frame) EXCEPT !.pc = "return",
                                         !.raised = "ValueError"]
                ELSE [Read(frame) EXCEPT
                        !.pc = "marky",
                        !.held = Num(ScaleToFrame(gaze_coordinates.x.v, SrcW))]
    /\ UNCHANGED <<todo, script, mainpc, attrs, connected, api, trace,
                   pendingCamera, streaming, gaze_coordinates, play_sound,
                   soundStarts, nConnect, nGaze, nFrames, nIntr>>

\* Line 191, second element, and the two cv2.circle calls (lines 193-194)
Video_marky ==
    /\ frame.pc = "marky"
    /\ frame' = IF NoAttr THEN Raise("AttributeError")
                ELSE IF isnan(gaze_coordinates.y)
                THEN [Read(frame) EXCEPT !.pc = "return",
                                         !.raised = "ValueError",
                                         !.held = Num(0)]
                ELSE [Read(frame) EXCEPT
                        !.pc = "show",
                        !.marker = <<frame.held.v,
                                     ScaleToFrame(gaze_coordinates.y.v, SrcH)>>,
                        !.held = Num(0)]
    /\ UNCHANGED <<todo, script, mainpc, attrs, connected, api, trace,
                   pendingCamera, streaming, gaze_coordinates, play_sound,
                   soundStarts, nConnect, nGaze, nFrames, nIntr>>

\* Line 196 (145 of pyside.py): cv2.imshow("preview", image)
Video_show ==
    /\ frame.pc = "show"
    /\ frame' = [frame EXCEPT !.shown = TRUE, !.pc = "key"]
    /\ UNCHANGED <<todo, script, mainpc, attrs, connected, api, trace,
                   pendingCamera, streaming, gaze_coordinates, play_sound,
                   soundStarts, nConnect, nGaze, nFrames, nIntr>>

\* The statement after the key test: print (pyside.py) or the return.
AfterKey == IF script = "pyside" THEN "print" ELSE "return"

\* Lines 198-199 (146-147): cv2.waitKey(1) returns; on 'q' self.close() is
\* entered, which evaluates self.frontend first.
Video_key ==
    /\ frame.pc = "key"
    /\ \E key \in {"q", "other"} :
         IF key # "q"
         THEN /\ frame' = [frame EXCEPT !.pc = AfterKey]
              /\ UNCHANGED <<trace, todo>>
         ELSE IF "frontend" \in attrs
         THEN /\ frame' = [frame EXCEPT !.q = TRUE, !.pc = "closing"]
              /\ Log("video", <<"q">>)
              /\ todo' = [todo EXCEPT !.video = GazeViewer_close]
         ELSE /\ frame' = [frame EXCEPT !.q = TRUE, !.pc = "return",
                                        !.raised = "AttributeError"]
              /\ Log("video", <<"q", "AttributeError">>)
              /\ todo' = todo
    /\ UNCHANGED <<script, mainpc, attrs, connected, api, pendingCamera,
                   streaming, gaze_coordinates, play_sound, soundStarts,
                   nConnect, nGaze, nFrames, nIntr>>

\* One statement of self.close() on the video thread.
Video_close ==
    /\ frame.pc = "closing"
    /\ Issue("video")
    /\ frame' = IF todo'.video # <<>> THEN frame
                ELSE IF trace'.video[Len(trace'.video)] = "AttributeError"
                THEN [frame EXCEPT !.pc = "return",
                                   !.raised = "AttributeError"]
                ELSE [frame EXCEPT !.pc = AfterKey]
    /\ UNCHANGED <<script, mainpc, attrs, gaze_coordinates, play_sound,
                   soundStarts, nConnect, nGaze, nFrames, nIntr>>

\* Line 149 of pyside.py: print(self._gaze_coordinates)
Video_print ==
    /\ frame.pc = "print"
    /\ frame' = IF NoAttr THEN Raise("AttributeError")
                ELSE [Read(frame) EXCEPT !.pc = "return"]
    /\ UNCHANGED <<todo, script, mainpc, attrs, connected, api, trace,
                   pendingCamera, streaming, gaze_coordinates, play_sound,
                   soundStarts, nConnect, nGaze, nFrames, nIntr>>

\* The handler returns (or its exception unwinds): its locals are gone.
Video_return ==
    /\ frame.pc = "return"
    /\ frame' = IdleFrame
    /\ UNCHANGED <<todo, script, mainpc, attrs, connected, api, trace,
                   pendingCamera, streaming, gaze_coordinates, play_sound,
                   soundStarts, nConnect, nGaze, nFrames, nIntr>>

\* -------------------------------------------------------------- full model
Next ==
    \/ Main_receiver
    \/ Main_api
    \/ Main_register
    \/ Main_start
    \/ Main_addr
    \/ Main_flag
    \/ Main_frontend
    \/ Main_gaze0
    \/ Main_ct
    \/ Main_assign
    \/ play_warning_sound
    \/ Main_wait
    \/ Main_interrupt
    \/ Main_close
    \/ Main_interrupt_uncaught
    \/ ConnectResponse
    \/ CameraResponse
    \/ Api_call
    \/ GazeViewer_handle_gaze_in_image_stream
    \/ GazeViewer_closeEvent
    \/ CloseEvent_call
    \/ Video_begin
    \/ Video_person
    \/ Video_textx
    \/ Video_texty
    \/ Video_nanx
    \/ Video_nany
    \/ Video_markx
    \/ Video_marky
    \/ Video_show
    \/ Video_key
    \/ Video_close
    \/ Video_print
    \/ Video_return

Spec == Init /\ [][Next]_vars

\* ------------------------------------------------------ marker computation
\* Gaze samples for the marker computation: every in-range x and every
\* in-range y, NaN in either place, and values outside the image.
MarkerSamples ==
    { [x |-> Num(v), y |-> Num(v % SrcH)] : v \in 0..(SrcW - 1) }
    \cup { [x |-> NaN, y |-> Num(5)], [x |-> Num(5), y |-> NaN],
           [x |-> NaN, y |-> NaN],
           [x |-> Num(0 - 3), y |-> Num(0 - 1)],
           [x |-> Num(SrcW), y |-> Num(SrcH)],
           [x |-> Num(2968), y |-> Num(2968)] }

\* eyeware.py up and streaming: the GazeViewer is built, main has run into
\* play_warning_sound, the tracker connected and the camera started; the
\* gaze is the dummy of line 119 or one sample of the stream.
InitMarker ==
    /\ script = "eyeware"
    /\ mainpc = "crashed"
    /\ attrs = {"addr", "frontend", "ct"}
    /\ connected = "True"
    /\ api = "started"
    /\ trace = [main  |-> <<"register_stream_handler", "start">>,
                api   |-> <<"connect_ok", "set_stream_control",
                            "start_camera_capture", "start_log_session",
                            "camera_ok", "start_video_stream">>,
                video |-> <<>>,
                ui    |-> <<>>]
    /\ todo = NoCalls
    /\ pendingCamera = 0
    /\ streaming = TRUE
    /\ \/ /\ nGaze = 0
          /\ gaze_coordinates = [x |-> Num(0), y |-> Num(0), id |-> 0]
       \/ /\ nGaze = 1
          /\ \E s \in MarkerSamples :
               gaze_coordinates = [x |-> s.x, y |-> s.y, id |-> 1]
    /\ frame = IdleFrame
    /\ play_sound = FALSE
    /\ soundStarts = 0
    /\ nConnect = 1
    /\ nFrames = 0
    /\ nIntr = 0

NextMarker ==
    \/ Video_begin
    \/ Video_person
    \/ Video_textx
    \/ Video_texty
    \/ Video_nanx
    \/ Video_nany
    \/ Video_markx
    \/ Video_marky
    \/ Video_show
    \/ Video_key
    \/ Video_close
    \/ Video_return

SpecMarker == InitMarker /\ [][NextMarker]_vars

\* ------------------------------------------------------------------ claims

\* C1 (as claimed).  Once main has called play_warning_sound, a frame in
\* which some tracked person is close and was not looked at triggers the
\* audio alert: the flag the video handler set is the flag
\* play_warning_sound reads, and a sound process has been started.
C1_AlertStartsSound ==
    (/\ frame.pc = "return"
     /\ mainpc \in Terminal \cup {"wait"}
     /\ \E p \in BagToSet(frame.persons) :
          ~p.is_seen /\ ~p.gseen /\ p.close)
    => (play_sound = frame.play_sound /\ soundStarts > 0)

\* C2 (as claimed).  In both scripts every frame that
\* _handle_video_stream handles without an exception is displayed with a
\* gaze marker drawn on it.
C2_EveryFrameShowsMarker ==
    (frame.pc = "return" /\ frame.raised = "")
    => (frame.shown /\ Len(frame.marker) = 2)

\* C3 (as claimed).  main leaves its wait loop without an interrupt only
\* after a connect response with no error; `connected` becomes True only in
\* the handler of such a response; nothing sets it back to False; and
\* without such a response main stays in the loop unless it is interrupted.
C3_WaitsForConnect ==
    [][ /\ (mainpc = "wait" /\ mainpc' = "done")
             => Has(trace.api, "connect_ok")
        /\ (connected # "True" /\ connected' = "True")
             => Has(trace.api, "connect_ok")
        /\ connected = "True" => connected' = "True"
        /\ (mainpc = "wait" /\ ~Has(trace.api, "connect_ok"))
             => mainpc' \in {"wait", "closing"} ]_vars

\* C4.  Start-up order, read off the calls of the API thread and of the main
\* thread: start_video_stream is requested only right after a camera-start
\* response with no error; set_stream_control, start_camera_capture and
\* start_log_session only in the handler of a connect response with no
\* error, in that order; register_stream_handler precedes api.start; the
\* handler of a connect response with an error issues no request (what
\* follows it is the next response), and `connected` is True only if a
\* connect response with no error arrived.
C4_StartupOrder ==
    LET t == trace.api
        events == {"connect_ok", "connect_err", "camera_ok", "camera_err"}
    IN /\ \A i \in 1..Len(t) :
            /\ t[i] = "start_video_stream"
                 => (i > 1 /\ t[i - 1] = "camera_ok")
            /\ t[i] = "set_stream_control"
                 => (i > 1 /\ t[i - 1] = "connect_ok")
            /\ t[i] = "start_camera_capture"
                 => (i > 1 /\ t[i - 1] = "set_stream_control")
            /\ t[i] = "start_log_session"
                 => (i > 1 /\ t[i - 1] = "start_camera_capture")
            /\ (t[i] = "connect_err" /\ i < Len(t)) => t[i + 1] \in events
       /\ (Len(t) > 0 /\ t[Len(t)] = "connect_err") => todo.api = <<>>
       /\ \A i \in 1..Len(trace.main) :
            trace.main[i] = "start"
              => (i > 1 /\ trace.main[i - 1] = "register_stream_handler")
       /\ connected = "True" => Has(t, "connect_ok")

\* C4 witness: the video stream was requested after a good camera response
\* that followed the three requests of a good connect response.
C4_Witness ==
    /\ Has(trace.main, "start")
    /\ Has(trace.api, "start_log_session")
    /\ Has(trace.api, "start_video_stream")
    /\ connected = "True"

\* C5 (as claimed).  When the handler of a camera-start response with an
\* error has run to its sys.exit() while main is in its try block or
\* beyond, the four shutdown calls followed the response, no
\* start_video_stream was requested after it by the API thread, and the main
\* thread has terminated too.
C5_CameraErrorEndsProgram ==
    LET t == trace.api
    IN \A i \in 1..Len(t) :
         (/\ t[i] = "camera_err"
          /\ Len(t) >= i + 5
          /\ t[i + 5] = "sys.exit"
          /\ mainpc \in Terminal \cup {"wait", "closing"})
           => /\ SubSeq(t, i + 1, i + 4)
                   = <<"stop_video_stream", "stop_camera_capture",
                       "stop_log_session", "shutdown">>
              /\ \A j \in (i + 1)..Len(t) : t[j] # "start_video_stream"
              /\ mainpc \in Terminal

\* C6 (as claimed).  A KeyboardInterrupt in main's wait loop, and a 'q' key
\* after a frame is shown, call GazeViewer.close: the calls the thread makes
\* from then on are stop_video_stream, stop_camera_capture,
\* stop_log_session, api.shutdown and destroyAllWindows, in that order, and
\* all five have been made once the thread has left close.
C6_CloseOrder ==
    LET want == <<"stop_video_stream", "stop_camera_capture",
                  "stop_log_session", "shutdown", "destroyAllWindows">>
        IsPrefix(s) == Len(s) <= Len(want) /\ s = SubSeq(want, 1, Len(s))
        Later(t, i) == {j \in (i + 1)..Len(t) : t[j] = t[i]}
        Seg(t, i) ==
            IF Later(t, i) = {} THEN SubSeq(t, i + 1, Len(t))
            ELSE SubSeq(t, i + 1,
                        (CHOOSE j \in Later(t, i) :
                           \A k \in Later(t, i) : j <= k) - 1)
    IN /\ \A i \in 1..Len(trace.main) :
            trace.main[i] = "KeyboardInterrupt"
              => /\ IsPrefix(Seg(trace.main, i))
                 /\ mainpc # "closing" => Seg(trace.main, i) = want
       /\ \A i \in 1..Len(trace.video) :
            trace.video[i] = "q"
              => /\ IsPrefix(Seg(trace.video, i))
                 /\ (frame.pc # "closing" \/ Later(trace.video, i) # {})
                      => Seg(trace.video, i) = want

\* C7.  Every person of the tracker update gets exactly one rectangle:
\* (0,255,0) if is_seen or is_person_seen(gaze), else (255,0,0) if close,
\* else (255,255,0); the frame's alert flag is True exactly when some person
\* got the (255,0,0) rectangle, and once the loop is over every person of
\* the update has been drawn.
C7_RectColours ==
    /\ \A p \in BagToSet(frame.persons) :
            /\ Len(p.rects) = 1
            /\ p.rects[1] = IF p.is_seen \/ p.gseen THEN <<0, 255, 0>>
                            ELSE IF p.close THEN <<255, 0, 0>>
                            ELSE <<255, 255, 0>>
    /\ frame.play_sound
         <=> \E p \in BagToSet(frame.persons) :
               p.rects[1] = <<255, 0, 0>>
    /\ (frame.pc \notin {"idle", "persons"} /\ frame.raised = "")
         => BagCardinality(frame.persons) = frame.n

\* C7 witness: a finished frame of two persons, one drawn with a red
\* rectangle and one with a green one, and the flag set.
C7_Witness ==
    /\ frame.pc = "return"
    /\ frame.shown
    /\ frame.play_sound
    /\ frame.n = 2
    /\ \E p, r \in BagToSet(frame.persons) :
         p.rects = <<RED>> /\ r.rects = <<GREEN>>

C9_OneSamplePerFrame ==
    /\ Cardinality(frame.reads) <= 1
    /\ frame.raised # "ValueError"

====
